---- MODULE Spec2Model ----
(***************************************************************************)
(* Model of the observability module (obervability/metrics.js, whose text  *)
(* is the second half of src/obervability/logging.js) and of the programs  *)
(* of this repository that mount its HTTP metrics middleware: server.js    *)
(* and the applications of USAGE_EXAMPLES.js; and of the logger and the     *)
(* request logger of obervability/logging.js (the first half of that file).*)
(*                                                                         *)
(* A JavaScript object created by initMetrics is identified by the number  *)
(* of the initMetrics call that created it (1, 2, ...); null is 0.         *)
(* A URL is a record [path, query]: the path is the sequence of its        *)
(* segments ("/api/health" is <<"api", "health">>, "/" is <<>>) and the    *)
(* query is the text from '?' on ("" when there is none).  The string      *)
(* req.path is the URL with an empty query.                                *)
(***************************************************************************)
EXTENDS Integers, Sequences, FiniteSets, TLC

\* Bounds of the model
MaxReqs == 2
MaxInits == 2

Reqs == 1..MaxReqs
Null == 0

\* ------------------------------------------------------------------------
\* The programs that use the module
\* ------------------------------------------------------------------------
\* server.js and examples 2, 3, 4 and 6 of USAGE_EXAMPLES.js
Programs == {"server", "orders", "users", "conditional", "native"}

\* and a client of the module that mounts what the exported factory
\* createHttpMetricsMiddleware() returns and calls initMetrics when it likes
Apps == Programs \cup {"standalone"}

\* express() applications; example6 calls the middleware from http.createServer
IsExpress(a) == a # "native"

\* express.json() / express.urlencoded() registered ahead of the middleware
ParsersFirst(a) == a \in {"server", "orders"}

\* the path the middleware is mounted under: app.use(mw) or app.use('/api', mw)
MountPath(a) == IF a = "conditional" THEN <<"api">> ELSE <<>>

\* programs that call initMetrics exactly once, before the app is built
InitAtStartup(a) == a # "standalone"

\* the routes each program registers: method, pattern, handler
Route(m, p, h) == [method |-> m, pattern |-> p, handler |-> h]

Routes(a) ==
  CASE a = "server" ->
         { Route("GET", <<>>, "root"),
           Route("GET", <<"api", "health">>, "health"),
           Route("GET", <<"api", "slow">>, "slow"),
           Route("GET", <<"api", "error">>, "error") }
    [] a = "orders" -> { Route("POST", <<"orders">>, "order") }
    [] a = "users" -> { Route("GET", <<"users", ":id">>, "json") }
    [] a = "conditional" ->
         { Route("GET", <<"api", "users">>, "json"),
           Route("GET", <<"health">>, "json") }
    [] a = "native" -> { Route("ANY", <<"health">>, "json") }
    [] a = "standalone" -> { Route("GET", <<"health">>, "json") }

\* ------------------------------------------------------------------------
\* Requests a client can send to each program
\* ------------------------------------------------------------------------
Url(p, q) == [path |-> p, query |-> q]

Input(m, u, b) == [method |-> m, url |-> u, body |-> b]

Inputs(a) ==
  CASE a = "server" ->
         { Input("GET", Url(<<"api", "health">>, ""), "none"),
           Input("GET", Url(<<"api", "slow">>, ""), "none"),
           Input("GET", Url(<<"api", "error">>, ""), "none"),
           Input("GET", Url(<<"missing">>, ""), "none"),
           Input("POST", Url(<<"api", "health">>, ""), "json"),
           Input("POST", Url(<<"api", "health">>, ""), "badjson") }
    [] a = "orders" ->
         { Input("POST", Url(<<"orders">>, ""), "json"),
           Input("POST", Url(<<"orders">>, ""), "empty"),
           Input("POST", Url(<<"orders">>, ""), "badjson") }
    [] a = "users" ->
         { Input("GET", Url(<<"users", "123">>, ""), "none"),
           Input("GET", Url(<<"users", "456">>, ""), "none"),
           Input("GET", Url(<<"nothing">>, ""), "none") }
    [] a = "conditional" ->
         { Input("GET", Url(<<"api", "users">>, ""), "none"),
           Input("GET", Url(<<"health">>, ""), "none") }
    [] a = "native" ->
         { Input("GET", Url(<<"health">>, ""), "none"),
           Input("GET", Url(<<"health">>, "?probe=1"), "none") }
    [] a = "standalone" ->
         { Input("GET", Url(<<"health">>, ""), "none"),
           Input("GET", Url(<<"other">>, ""), "none") }

\* ------------------------------------------------------------------------
\* State
\* ------------------------------------------------------------------------
VARIABLES
  app,                  \* the program that is running
  phase,                \* "Starting" or "Listening"
  initCalls,            \* number of initMetrics calls made so far
  meterProvider,        \* module-level holders of metrics.js (0 is null)
  meter,
  httpRequestCounter,
  httpRequestDuration,
  activeRequests,
  instruments,          \* instruments[k]: the three instruments call k made
  mounted,              \* which middleware the app uses (NotMounted if none)
  reqs,                 \* the requests, by number
  ret,                  \* outcome of the last call of an exported function
  created,              \* the objects initMetrics constructed, in order
  span,                 \* the span of the active tracing context (or NoSpan)
  sink,                 \* the records the logger has written, in order
  pending,              \* the response the request logger is waiting on
  pc,                   \* how far the program's main script has run
  sdk,                  \* the tracing SDK: times started, state of shutdown
  handlers,             \* the listeners registered on each process signal
  exit,                 \* whether and how the process has ended
  console               \* the lines written to the console, in order

vars == <<app, phase, initCalls, meterProvider, meter, httpRequestCounter,
          httpRequestDuration, activeRequests, instruments, mounted, reqs, ret,
          created, span, sink, pending, pc, sdk, handlers, exit, console>>

logVars == <<span, sink, pending>>

procVars == <<pc, sdk, handlers, exit, console>>

holders == <<meterProvider, meter, httpRequestCounter, httpRequestDuration,
             activeRequests>>

NotMounted == -1
FromFactory == 0

\* ------------------------------------------------------------------------
\* Instruments: a value per attribute set, created on first use
\* ------------------------------------------------------------------------
NoValues == [k \in {} |-> 0]

Val(f, k) == IF k \in DOMAIN f THEN f[k] ELSE 0

\* Counter.add / UpDownCounter.add / one Histogram.record on attribute set k
Bump(f, k, d) ==
  IF k \in DOMAIN f THEN [f EXCEPT ![k] = @ + d] ELSE f @@ (k :> d)

NewInstruments ==
  [requests_total |-> NoValues, duration_ms |-> NoValues, active |-> NoValues]

GaugeKey(m, route) == [method |-> m, route |-> route]
CountKey(m, route, s) == [method |-> m, route |-> route, status |-> s]

\* one recorded instrument call: the instrument object and the attributes
Call(obj, key) == [obj |-> obj, key |-> key]

\* ------------------------------------------------------------------------
\* The framework: what req.path and req.url are
\* ------------------------------------------------------------------------
IsPrefix(p, q) == Len(p) <= Len(q) /\ SubSeq(q, 1, Len(p)) = p

\* req.url as a middleware mounted under `mount` sees it
StripMount(mount, u) ==
  Url(SubSeq(u.path, Len(mount) + 1, Len(u.path)), u.query)

\* `req.path || req.url`: express defines req.path as the pathname of
\* req.url; a native http request has no path property
RouteLabel(a, requrl) ==
  IF IsExpress(a) THEN Url(requrl.path, "") ELSE requrl

\* a registered route pattern matches a path segment by segment
ParamSegs == {":id"}

Matches(pattern, path) ==
  /\ Len(pattern) = Len(path)
  /\ \A i \in 1..Len(pattern) :
        pattern[i] \in ParamSegs \/ pattern[i] = path[i]

MatchingRoutes(a, m, u) ==
  IF IsExpress(a)
  THEN { rt \in Routes(a) : rt.method = m /\ Matches(rt.pattern, u.path) }
  ELSE { rt \in Routes(a) : Url(rt.pattern, "") = u }

\* the status a handler answers with; "pending" when it answers later and
\* "throw" when it throws
HandlerOutcome(h, body) ==
  CASE h \in {"root", "health", "json"} -> "200"
    [] h = "error" -> "500"
    [] h = "slow" -> "pending"
    [] h = "order" -> IF body = "json" THEN "200" ELSE "throw"

\* the JSON body a handler answers with (without its timestamp and uptime)
ResponseBody(h) ==
  CASE h = "root" ->
         [message |-> "API Monitoring Project with OpenTelemetry"]
    [] h = "health" ->
         [status |-> "healthy", service |-> "api-monitoring-service"]
    [] h = "slow" ->
         [message |-> "This was a slow request", delay |-> "2 seconds"]
    [] h = "error" ->
         [error |-> "Internal Server Error",
          message |-> "Simulated error for testing"]
    [] h \in {"json", "order"} -> [json |-> "example"]

\* the delay of the timer of /api/slow, and the step of the clock
SlowDelay == 2000
TickMs == 1000

\* What the middleware can observe or change of a request/response pair
View(q, requrl) ==
  [method |-> q.method, url |-> requrl, body |-> q.body, status |-> q.status]

\* A request: its state, the request and response fields, and a record of
\* what the middleware did on it (mwIn, mwOut: the pair as the middleware
\* found and left it; nexts: the argument of each next() call; listeners:
\* the 'finish' listeners it registered; incs, decs, adds, recs: the
\* instrument calls made for it; events: what happened to it, in order;
\* sent: the JSON body its handler answered with; timer: the milliseconds
\* left on the timer its handler set).
NewReq ==
  [st |-> "idle", method |-> "", url |-> Url(<<>>, ""), body |-> "none",
   status |-> 200, listeners |-> 0, matched |-> <<>>,
   threw |-> FALSE, handlerThrew |-> FALSE,
   mwIn |-> <<>>, mwOut |-> <<>>, nexts |-> <<>>,
   incs |-> <<>>, decs |-> <<>>, adds |-> <<>>, recs |-> <<>>,
   events |-> <<>>, sent |-> <<>>, timer |-> 0]

\* ------------------------------------------------------------------------
\* logging.js: the process-wide logger and the request logger
\* ------------------------------------------------------------------------
\* Bounds of the logging model
MaxLogs == 2
MaxFlags == 255
MinStatus == 100
MaxStatus == 599

\* no span in the active context: trace.getSpan(context.active()) is undefined
NoSpan == [none |-> TRUE]

\* span.spanContext() of a span
SpanContext(t, s, f) == [traceId |-> t, spanId |-> s, traceFlags |-> f]

Spans ==
  { SpanContext("4bf92f3577b34da6a3ce929d0e0e4736", "00f067aa0ba902b7", 1),
    SpanContext("0af7651916cd43dd8448eb211c80319c", "b7ad6b7169203331", 0) }

\* Number.prototype.toString(radix) and the number in a template literal
Digits ==
  <<"0", "1", "2", "3", "4", "5", "6", "7", "8", "9",
    "a", "b", "c", "d", "e", "f">>

RECURSIVE NumberToString(_, _)
NumberToString(n, radix) ==
  IF n < radix THEN Digits[n + 1]
  ELSE NumberToString(n \div radix, radix) \o Digits[(n % radix) + 1]

\* `0${spanContext.traceFlags.toString(16)}`
TraceFlagsField(f) == "0" \o NumberToString(f, 16)

NoFields == [f \in {} |-> ""]

\* a mixin that attaches empty fields when no span is active
Mixin_EmptyWhenAbsent(s) ==
  IF s # NoSpan
  THEN [trace_id |-> s.traceId, span_id |-> s.spanId,
        trace_flags |-> TraceFlagsField(s.traceFlags)]
  ELSE [trace_id |-> "", span_id |-> "", trace_flags |-> ""]

\* mixin(), given trace.getSpan(context.active())
Mixin(s) ==
  IF s # NoSpan
  THEN [trace_id |-> s.traceId, span_id |-> s.spanId,
        trace_flags |-> TraceFlagsField(s.traceFlags)]
  ELSE NoFields

\* formatters.level: label.toUpperCase()
LevelLabel(level) ==
  CASE level = "info" -> "INFO"
    [] level = "warn" -> "WARN"
    [] level = "error" -> "ERROR"

\* no error was passed to the request logger
NoErr == [none |-> TRUE]

Err(m) == [message |-> m]

\* the request logger has no response it is waiting on
NoPending == [none |-> TRUE]

\* a request/response pair the request logger listens to: the request's
\* method and url, the response's status code and the error it ended with
Pair(m, u, s, e) == [method |-> m, url |-> u, statusCode |-> s, err |-> e]

\* a level policy that looks at the error first
CustomLogLevel_ErrorFirst(res, err) ==
  IF res.statusCode >= 500 \/ err # NoErr THEN "error"
  ELSE IF res.statusCode >= 400 /\ res.statusCode < 500 THEN "warn"
  ELSE "info"

\* a level policy that looks at the status only
CustomLogLevel_StatusOnly(res, err) ==
  IF res.statusCode >= 400 /\ res.statusCode < 500 THEN "warn"
  ELSE IF res.statusCode >= 500 THEN "error"
  ELSE "info"

\* customLogLevel(req, res, err)
CustomLogLevel(res, err) ==
  IF res.statusCode >= 400 /\ res.statusCode < 500 THEN "warn"
  ELSE IF res.statusCode >= 500 \/ err # NoErr THEN "error"
  ELSE "info"

\* customSuccessMessage(req, res)
CustomSuccessMessage(req, res) ==
  req.method \o " " \o req.url \o " " \o NumberToString(res.statusCode, 10)

\* an error message that leaves the status code out
CustomErrorMessage_NoStatus(req, res, err) ==
  req.method \o " " \o req.url \o " - " \o err.message

\* customErrorMessage(req, res, err)
CustomErrorMessage(req, res, err) ==
  req.method \o " " \o req.url \o " " \o NumberToString(res.statusCode, 10)
    \o " - " \o err.message

\* pino-http takes the error path when the response ended with an error or
\* with a 5xx status, for which it makes the error itself
EndedInError(p) == p.err # NoErr \/ p.statusCode >= 500

ErrorOf(p) ==
  IF p.err # NoErr THEN p.err
  ELSE Err("failed with status code " \o NumberToString(p.statusCode, 10))

\* one written record: the JSON object `rec`, with what was true when it
\* was written: the span of the active context (`at`), the request/response
\* pair it summarises (`of`, NoPending for a plain logger call) and the
\* level the policy chose
Entry(level, msg, fields, at, of) ==
  [rec |-> [level |-> LevelLabel(level), message |-> msg] @@ fields,
   level |-> level, at |-> at, of |-> of]


\* ------------------------------------------------------------------------
\* metrics.js
\* ------------------------------------------------------------------------
NoCall == [op |-> "none", threw |-> FALSE, value |-> [none |-> 0]]

NotInitialized == [error |-> "Metrics not initialized. Call initMetrics() first."]

\* the config argument each program passes to initMetrics; a field that is
\* not given is absent from the record
NoConfig == [f \in {} |-> ""]

Configs(a) ==
  CASE a = "server" ->
         { [port |-> 9464, endpoint |-> "/metrics",
            serviceName |-> "api-monitoring-service"] }
    [] a = "orders" -> { [serviceName |-> "ecommerce-api"] }
    [] a = "users" -> { [serviceName |-> "user-service", port |-> 9464] }
    [] a = "conditional" -> { NoConfig }
    [] a = "native" -> { [serviceName |-> "http-server"] }
    [] a = "standalone" ->
         { [serviceName |-> "order-service", port |-> 9465] }

\* process.env.SERVICE_NAME: "" when the variable is not set
Envs == {"", "svc-from-env"}

\* the defaults of the destructured config
DefaultPort == 9464
DefaultEndpoint == "/metrics"
DefaultServiceName == "api-monitoring-service"

ConfigPort(cfg) == IF "port" \in DOMAIN cfg THEN cfg.port ELSE DefaultPort

ConfigEndpoint(cfg) ==
  IF "endpoint" \in DOMAIN cfg THEN cfg.endpoint ELSE DefaultEndpoint

\* serviceName = process.env.SERVICE_NAME || 'api-monitoring-service'
ConfigServiceName(cfg, env) ==
  IF "serviceName" \in DOMAIN cfg THEN cfg.serviceName
  ELSE IF env # "" THEN env ELSE DefaultServiceName

\* one constructed object: its kind, the initMetrics call that made it, and
\* the arguments of its constructor ("" or 0 where it has no such argument)
Made(kind, k, name, port, endpoint, unit) ==
  [kind |-> kind, call |-> k, name |-> name, port |-> port,
   endpoint |-> endpoint, unit |-> unit]

\* initMetrics creating the middleware ahead of the instruments and the
\* histogram without its unit
Creations_MiddlewareFirst(k, cfg, env) ==
  LET sn == ConfigServiceName(cfg, env) IN
  << Made("exporter", k, "", ConfigPort(cfg), ConfigEndpoint(cfg), ""),
     Made("meterProvider", k, sn, 0, "", ""),
     Made("meter", k, sn, 0, "", ""),
     Made("middleware", k, "", 0, "", ""),
     Made("counter", k, "http_requests_total", 0, "", ""),
     Made("histogram", k, "http_request_duration_ms", 0, "", ""),
     Made("updown", k, "http_active_requests", 0, "", "") >>

\* what the k-th initMetrics call constructs, in the order of its statements
Creations(k, cfg, env) ==
  LET sn == ConfigServiceName(cfg, env) IN
  << Made("exporter", k, "", ConfigPort(cfg), ConfigEndpoint(cfg), ""),
     Made("meterProvider", k, sn, 0, "", ""),
     Made("meter", k, sn, 0, "", ""),
     Made("counter", k, "http_requests_total", 0, "", ""),
     Made("histogram", k, "http_request_duration_ms", 0, "", "ms"),
     Made("updown", k, "http_active_requests", 0, "", ""),
     Made("middleware", k, "", 0, "", "") >>

\* initMetrics returning what a first call made when called again
InitMetrics_Guarded(cfg, env) ==
  /\ initCalls < MaxInits
  /\ IF InitAtStartup(app)
     THEN phase = "Starting" /\ initCalls = 0
     ELSE TRUE
  /\ LET k == IF meterProvider = Null THEN initCalls + 1 ELSE meterProvider IN
       /\ initCalls' = initCalls + 1
       /\ meterProvider' = k
       /\ meter' = k
       /\ httpRequestCounter' = k
       /\ httpRequestDuration' = k
       /\ activeRequests' = k
       /\ instruments' = IF meterProvider = Null
                         THEN Append(instruments, NewInstruments)
                         ELSE instruments
       /\ created' = IF meterProvider = Null
                     THEN created \o Creations(k, cfg, env)
                     ELSE created
       /\ ret' = [op |-> "initMetrics", threw |-> FALSE,
                  value |-> [meterProvider |-> k, meter |-> k,
                             httpRequestCounter |-> k,
                             httpRequestDuration |-> k,
                             activeRequests |-> k, middleware |-> k]]
  /\ UNCHANGED <<logVars, app, phase, mounted, reqs>>

\* initMetrics(config): a new exporter, meter provider, meter and three
\* instruments replace the module-level holders; the middleware is returned
InitMetrics(cfg, env) ==
  /\ initCalls < MaxInits
  /\ IF InitAtStartup(app)
     THEN phase = "Starting" /\ initCalls = 0
     ELSE TRUE
  /\ LET k == initCalls + 1 IN
       /\ initCalls' = k
       /\ meterProvider' = k
       /\ meter' = k
       /\ httpRequestCounter' = k
       /\ httpRequestDuration' = k
       /\ activeRequests' = k
       /\ instruments' = Append(instruments, NewInstruments)
       /\ created' = created \o Creations(k, cfg, env)
       /\ ret' = [op |-> "initMetrics", threw |-> FALSE,
                  value |-> [meterProvider |-> k, meter |-> k,
                             httpRequestCounter |-> k,
                             httpRequestDuration |-> k,
                             activeRequests |-> k, middleware |-> k]]
  /\ UNCHANGED <<logVars, app, phase, mounted, reqs>>

\* getMeter without its guard
GetMeter_NoGuard ==
  /\ ret' = [op |-> "getMeter", threw |-> FALSE, value |-> [meter |-> meter]]
  /\ UNCHANGED <<procVars, logVars, created, app, phase, initCalls, holders, instruments, mounted, reqs>>

\* getMeter()
GetMeter ==
  /\ ret' = IF meter = Null
            THEN [op |-> "getMeter", threw |-> TRUE, value |-> NotInitialized]
            ELSE [op |-> "getMeter", threw |-> FALSE,
                  value |-> [meter |-> meter]]
  /\ UNCHANGED <<procVars, logVars, created, app, phase, initCalls, holders, instruments, mounted, reqs>>

\* getHttpInstruments()
GetHttpInstruments ==
  /\ ret' = IF \/ httpRequestCounter = Null
               \/ httpRequestDuration = Null
               \/ activeRequests = Null
            THEN [op |-> "getHttpInstruments", threw |-> TRUE,
                  value |-> NotInitialized]
            ELSE [op |-> "getHttpInstruments", threw |-> FALSE,
                  value |-> [httpRequestCounter |-> httpRequestCounter,
                             httpRequestDuration |-> httpRequestDuration,
                             activeRequests |-> activeRequests]]
  /\ UNCHANGED <<procVars, logVars, created, app, phase, initCalls, holders, instruments, mounted, reqs>>

\* the middleware listening to 'finish' and to 'close'
HttpMetricsMiddleware_TwoListeners(a, q, requrl, ins) ==
  IF activeRequests = Null
  THEN [req |-> [q EXCEPT !.mwIn = <<View(q, requrl)>>, !.threw = TRUE],
        ins |-> ins]
  ELSE LET key == GaugeKey(q.method, RouteLabel(a, requrl)) IN
       [req |-> [q EXCEPT !.mwIn = <<View(q, requrl)>>,
                          !.incs = Append(@, Call(activeRequests, key)),
                          !.listeners = @ + 2,
                          !.nexts = Append(@, "none"),
                          !.events = @ \o <<"inc", "next">>,
                          !.mwOut = <<View(q, requrl)>>],
        ins |-> [ins EXCEPT ![activeRequests].active = Bump(@, key, 1)]]

\* the middleware without its call of next()
HttpMetricsMiddleware_NoNext(a, q, requrl, ins) ==
  IF activeRequests = Null
  THEN [req |-> [q EXCEPT !.mwIn = <<View(q, requrl)>>, !.threw = TRUE],
        ins |-> ins]
  ELSE LET key == GaugeKey(q.method, RouteLabel(a, requrl)) IN
       [req |-> [q EXCEPT !.mwIn = <<View(q, requrl)>>,
                          !.incs = Append(@, Call(activeRequests, key)),
                          !.listeners = @ + 1,
                          !.events = @ \o <<"inc">>,
                          !.mwOut = <<View(q, requrl)>>],
        ins |-> [ins EXCEPT ![activeRequests].active = Bump(@, key, 1)]]

\* The function createHttpMetricsMiddleware() returns, run on request q
\* whose req.url is requrl: the gauge increment, the registration of the
\* 'finish' listener and the call of next().  The instruments are read from
\* the module-level holders when the function runs; a null holder makes
\* `activeRequests.add` throw a TypeError before anything else happens.
HttpMetricsMiddleware(a, q, requrl, ins) ==
  IF activeRequests = Null
  THEN [req |-> [q EXCEPT !.mwIn = <<View(q, requrl)>>, !.threw = TRUE],
        ins |-> ins]
  ELSE LET key == GaugeKey(q.method, RouteLabel(a, requrl)) IN
       [req |-> [q EXCEPT !.mwIn = <<View(q, requrl)>>,
                          !.incs = Append(@, Call(activeRequests, key)),
                          !.listeners = @ + 1,
                          !.nexts = Append(@, "none"),
                          !.events = @ \o <<"inc", "next">>,
                          !.mwOut = <<View(q, requrl)>>],
        ins |-> [ins EXCEPT ![activeRequests].active = Bump(@, key, 1)]]

\* OnFinish with the gauge decrement left out
OnFinish_NoDecrement(a, q, requrl, ins) ==
  LET route == RouteLabel(a, requrl)
      ck == CountKey(q.method, route, q.status)
      i2 == [ins EXCEPT ![httpRequestCounter].requests_total = Bump(@, ck, 1)]
      i3 == [i2 EXCEPT ![httpRequestDuration].duration_ms = Bump(@, ck, 1)]
  IN [req |-> [q EXCEPT !.adds = Append(@, Call(httpRequestCounter, ck)),
                        !.recs = Append(@, Call(httpRequestDuration, ck)),
                        !.events = @ \o <<"add", "rec">>],
      ins |-> i3]

\* a 'finish' listener that records first and decrements last
OnFinish_RecordFirst(a, q, requrl, ins) ==
  LET route == RouteLabel(a, requrl)
      gk == GaugeKey(q.method, route)
      ck == CountKey(q.method, route, q.status)
      i1 == [ins EXCEPT ![httpRequestDuration].duration_ms = Bump(@, ck, 1)]
      i2 == [i1 EXCEPT ![httpRequestCounter].requests_total = Bump(@, ck, 1)]
      i3 == [i2 EXCEPT ![activeRequests].active = Bump(@, gk, -1)]
  IN [req |-> [q EXCEPT !.decs = Append(@, Call(activeRequests, gk)),
                        !.adds = Append(@, Call(httpRequestCounter, ck)),
                        !.recs = Append(@, Call(httpRequestDuration, ck)),
                        !.events = @ \o <<"rec", "add", "dec">>],
      ins |-> i3]

\* The 'finish' listener of the middleware, run on request q whose req.url
\* is requrl by now: gauge decrement, counter add, histogram record
OnFinish(a, q, requrl, ins) ==
  LET route == RouteLabel(a, requrl)
      gk == GaugeKey(q.method, route)
      ck == CountKey(q.method, route, q.status)
      i1 == [ins EXCEPT ![activeRequests].active = Bump(@, gk, -1)]
      i2 == [i1 EXCEPT ![httpRequestCounter].requests_total = Bump(@, ck, 1)]
      i3 == [i2 EXCEPT ![httpRequestDuration].duration_ms = Bump(@, ck, 1)]
  IN [req |-> [q EXCEPT !.decs = Append(@, Call(activeRequests, gk)),
                        !.adds = Append(@, Call(httpRequestCounter, ck)),
                        !.recs = Append(@, Call(httpRequestDuration, ck)),
                        !.events = @ \o <<"dec", "add", "rec">>],
      ins |-> i3]

\* ------------------------------------------------------------------------
\* The programs: start-up
\* ------------------------------------------------------------------------
InitProgram(as) ==
  /\ app \in as
  /\ phase = "Starting"
  /\ initCalls = 0
  /\ meterProvider = Null
  /\ meter = Null
  /\ httpRequestCounter = Null
  /\ httpRequestDuration = Null
  /\ activeRequests = Null
  /\ instruments = <<>>
  /\ mounted = NotMounted
  /\ reqs = [r \in Reqs |-> NewReq]
  /\ ret = NoCall
  /\ created = <<>>

\* the process
Running == [state |-> "running", code |-> -1, signal |-> ""]

\* process.exit(code)
Exited(c) == [state |-> "exited", code |-> c, signal |-> ""]

\* ended by the default action of a signal nobody listens to
KilledBy(sig) == [state |-> "killed", code |-> -1, signal |-> sig]

Signals == {"SIGTERM", "SIGINT"}

\* the SDK object of tracing.js before the module is loaded
NoSdk == [starts |-> 0, shutdown |-> "no"]

\* no span is active while the modules load and nothing is logged yet; the
\* main script has not run a statement
InitWith(as) ==
  /\ InitProgram(as)
  /\ span = NoSpan
  /\ sink = <<>>
  /\ pending = NoPending
  /\ pc = 0
  /\ sdk = NoSdk
  /\ handlers = [sig \in Signals |-> <<>>]
  /\ exit = Running
  /\ console = <<>>

\* the programs of the repository
Init == InitWith(Programs)

\* any client of the module
InitModule == InitWith(Apps)

\* app.use(metricsMiddleware): the middleware the initMetrics call returned
UseMiddleware ==
  /\ phase = "Starting"
  /\ mounted = NotMounted
  /\ initCalls >= 1
  /\ mounted' = initCalls
  /\ UNCHANGED <<logVars, created, app, phase, initCalls, holders, instruments, reqs, ret>>

\* app.use(createHttpMetricsMiddleware()): the exported factory, which can
\* be called whether or not initMetrics has been
UseFactoryMiddleware ==
  /\ ~InitAtStartup(app)
  /\ phase = "Starting"
  /\ mounted = NotMounted
  /\ mounted' = FromFactory
  /\ UNCHANGED <<logVars, created, app, phase, initCalls, holders, instruments, reqs, ret>>

\* app.listen(PORT)
Listen ==
  /\ phase = "Starting"
  /\ mounted # NotMounted
  /\ phase' = "Listening"
  /\ UNCHANGED <<logVars, created, app, initCalls, holders, instruments, mounted, reqs, ret>>

\* ------------------------------------------------------------------------
\* The programs: one request
\* ------------------------------------------------------------------------
\* the router after the middleware: the matching route's handler runs, or
\* the framework answers 404; a handler that throws is answered with 500
Dispatch(a, q) ==
  LET ms == MatchingRoutes(a, q.method, q.url) IN
  IF ms = {}
  THEN [q EXCEPT !.st = "ended", !.status = 404]
  ELSE LET rt == CHOOSE x \in ms : TRUE
           out == HandlerOutcome(rt.handler, q.body)
           m == [q EXCEPT !.matched = <<rt.pattern>>,
                          !.events = Append(@, "handler")]
           body == <<ResponseBody(rt.handler)>>
       IN CASE out = "200" -> [m EXCEPT !.st = "ended", !.status = 200,
                                        !.sent = body]
            [] out = "500" -> [m EXCEPT !.st = "ended", !.status = 500,
                                        !.sent = body]
            [] out = "pending" -> [m EXCEPT !.st = "waiting",
                                            !.timer = SlowDelay]
            [] out = "throw" -> [m EXCEPT !.st = "ended", !.status = 500,
                                          !.handlerThrew = TRUE]

\* the middleware stack from the metrics middleware on, run to completion
\* in one turn of the event loop.  A middleware mounted under a path runs
\* only on requests under that path, and sees req.url without the mount
\* path; req.url is restored when it calls next().  An exception thrown by
\* the middleware is answered with 500 by express and is uncaught in a
\* native http server.
Chain(a, q, ins) ==
  IF IsPrefix(MountPath(a), q.url.path)
  THEN LET m == HttpMetricsMiddleware(a, q, StripMount(MountPath(a), q.url),
                                      ins)
       IN IF m.req.threw
          THEN [req |-> [m.req EXCEPT
                           !.st = IF IsExpress(a) THEN "ended" ELSE "uncaught",
                           !.status = 500],
                ins |-> m.ins]
          ELSE IF m.req.nexts = <<>>
          THEN [req |-> [m.req EXCEPT !.st = "hung"], ins |-> m.ins]
          ELSE IF m.req.nexts[1] # "none"
          THEN [req |-> [m.req EXCEPT !.st = "ended", !.status = 500],
                ins |-> m.ins]
          ELSE [req |-> Dispatch(a, m.req), ins |-> m.ins]
  ELSE [req |-> Dispatch(a, q), ins |-> ins]

\* a server whose pending handler keeps the event loop busy: nothing arrives
\* while a request waits for its delay
Arrive_Blocked(r, in) ==
  /\ phase = "Listening"
  /\ reqs[r].st = "idle"
  /\ \A w \in Reqs : reqs[w].st # "waiting"
  /\ IF r = 1 THEN TRUE ELSE reqs[r - 1].st # "idle"
  /\ LET q == [NewReq EXCEPT !.method = in.method, !.url = in.url,
                             !.body = in.body]
     IN IF ParsersFirst(app) /\ in.body # "none"
        THEN /\ reqs' = [reqs EXCEPT ![r] = [q EXCEPT !.st = "reading"]]
             /\ UNCHANGED instruments
        ELSE LET c == Chain(app, q, instruments) IN
             /\ reqs' = [reqs EXCEPT ![r] = c.req]
             /\ instruments' = c.ins
  /\ UNCHANGED <<procVars, logVars, created, app, phase, initCalls, holders, mounted, ret>>

\* a request arrives; one with a body is first read by the body parsers
Arrive(r, in) ==
  /\ phase = "Listening"
  /\ reqs[r].st = "idle"
  /\ IF r = 1 THEN TRUE ELSE reqs[r - 1].st # "idle"
  /\ LET q == [NewReq EXCEPT !.method = in.method, !.url = in.url,
                             !.body = in.body]
     IN IF ParsersFirst(app) /\ in.body # "none"
        THEN /\ reqs' = [reqs EXCEPT ![r] = [q EXCEPT !.st = "reading"]]
             /\ UNCHANGED instruments
        ELSE LET c == Chain(app, q, instruments) IN
             /\ reqs' = [reqs EXCEPT ![r] = c.req]
             /\ instruments' = c.ins
  /\ UNCHANGED <<procVars, logVars, created, app, phase, initCalls, holders, mounted, ret>>

\* express.json() has read the body: a malformed body is passed on as an
\* error, which skips every later middleware and is answered with 400
BodyRead(r) ==
  /\ reqs[r].st = "reading"
  /\ IF reqs[r].body = "badjson"
     THEN /\ reqs' = [reqs EXCEPT ![r].st = "ended", ![r].status = 400]
          /\ UNCHANGED instruments
     ELSE LET c == Chain(app, reqs[r], instruments) IN
          /\ reqs' = [reqs EXCEPT ![r] = c.req]
          /\ instruments' = c.ins
  /\ UNCHANGED <<procVars, logVars, created, app, phase, initCalls, holders, mounted, ret>>

\* time passes: every running timer has TickMs less to go
Tick ==
  /\ \E r \in Reqs : reqs[r].st = "waiting" /\ reqs[r].timer > 0
  /\ reqs' = [r \in Reqs |->
                IF reqs[r].st = "waiting" /\ reqs[r].timer > 0
                THEN [reqs[r] EXCEPT
                        !.timer = IF @ > TickMs THEN @ - TickMs ELSE 0]
                ELSE reqs[r]]
  /\ UNCHANGED <<procVars, logVars, created, app, phase, initCalls, holders, instruments, mounted, ret>>

\* the setTimeout callback of /api/slow answers, once its delay is over
TimerFire(r) ==
  /\ reqs[r].st = "waiting"
  /\ reqs[r].timer = 0
  /\ reqs' = [reqs EXCEPT ![r].st = "ended", ![r].status = 200,
                          ![r].sent = <<ResponseBody("slow")>>]
  /\ UNCHANGED <<procVars, logVars, created, app, phase, initCalls, holders, instruments, mounted, ret>>

\* res.emit('finish'): each of the n listeners the middleware registered
\* on the response runs
RECURSIVE Emit(_, _, _, _, _)
Emit(n, a, q, requrl, ins) ==
  IF n = 0
  THEN [req |-> q, ins |-> ins]
  ELSE LET c == OnFinish(a, q, requrl, ins)
       IN Emit(n - 1, a, c.req, requrl, c.ins)

\* the response has been handed to the operating system: 'finish' is
\* emitted and the middleware's listener, when registered, runs
Finish(r) ==
  /\ reqs[r].st = "ended"
  /\ LET q == [reqs[r] EXCEPT !.events = Append(@, "finish")]
         c == Emit(q.listeners, app, q, q.url, instruments)
     IN /\ reqs' = [reqs EXCEPT ![r] = [c.req EXCEPT !.st = "finished"]]
        /\ instruments' = c.ins
  /\ UNCHANGED <<procVars, logVars, created, app, phase, initCalls, holders, mounted, ret>>

\* the client closes the connection before the response is sent: the
\* response emits 'close' and never 'finish'
Abort(r) ==
  /\ reqs[r].st \in {"reading", "waiting", "ended"}
  /\ reqs' = [reqs EXCEPT ![r].st = "aborted"]
  /\ UNCHANGED <<procVars, logVars, created, app, phase, initCalls, holders, instruments, mounted, ret>>

Next ==
  \/ /\ \E cfg \in Configs(app) : \E env \in Envs : InitMetrics(cfg, env)
     /\ UNCHANGED procVars
  \/ GetMeter
  \/ GetHttpInstruments
  \/ UseMiddleware /\ UNCHANGED procVars
  \/ Listen /\ UNCHANGED procVars
  \/ \E r \in Reqs : \E in \in Inputs(app) : Arrive(r, in)
  \/ \E r \in Reqs : BodyRead(r)
  \/ \E r \in Reqs : TimerFire(r)
  \/ \E r \in Reqs : Finish(r)
  \/ \E r \in Reqs : Abort(r)
  \/ Tick

Spec == Init /\ [][Next]_vars

NextModule ==
  \/ Next
  \/ UseFactoryMiddleware /\ UNCHANGED procVars

SpecModule == InitModule /\ [][NextModule]_vars

\* ------------------------------------------------------------------------
\* A process that uses logging.js
\* ------------------------------------------------------------------------
metricsVars == <<app, phase, initCalls, holders, instruments, mounted, reqs,
                 ret, created>>

\* the requests whose responses the request logger summarises
Methods == {"GET", "POST"}
Paths == {"/api/health", "/orders"}
ErrorMessages == {"Cannot read properties of undefined"}

\* a span becomes the span of the active context
EnterSpan(s) ==
  /\ span # s
  /\ span' = s
  /\ UNCHANGED <<procVars, metricsVars, sink, pending>>

\* the active context has no span any more
ExitSpan ==
  /\ span # NoSpan
  /\ span' = NoSpan
  /\ UNCHANGED <<procVars, metricsVars, sink, pending>>

\* a logger whose trace fields were fixed when it was constructed
LogInfo_AtConstruction(msg) ==
  /\ Len(sink) < MaxLogs
  /\ sink' = Append(sink, Entry("info", msg, Mixin(NoSpan), span, NoPending))
  /\ UNCHANGED <<procVars, metricsVars, span, pending>>

\* logger.info(msg), as in initLogging(): the mixin runs when the record
\* is written
LogInfo(msg) ==
  /\ Len(sink) < MaxLogs
  /\ sink' = Append(sink, Entry("info", msg, Mixin(span), span, NoPending))
  /\ UNCHANGED <<procVars, metricsVars, span, pending>>

\* httpLogger(req, res, next): the request logger starts waiting for the
\* response, which will end with status s and error e
HttpLogger(m, u, s, e) ==
  /\ pending = NoPending
  /\ pending' = Pair(m, u, s, e)
  /\ UNCHANGED <<procVars, metricsVars, span, sink>>

\* the response has ended: the request logger writes its summary record
\* with the chosen level and message
OnResFinish ==
  /\ pending # NoPending
  /\ Len(sink) < MaxLogs
  /\ LET level == CustomLogLevel(pending, pending.err)
         msg == IF EndedInError(pending)
                THEN CustomErrorMessage(pending, pending, ErrorOf(pending))
                ELSE CustomSuccessMessage(pending, pending)
     IN sink' = Append(sink, Entry(level, msg, Mixin(span), span, pending))
  /\ pending' = NoPending
  /\ UNCHANGED <<procVars, metricsVars, span>>

\* the logger is constructed when the module is loaded, with no span active
InitLog == InitWith({"standalone"})

NextLog ==
  \/ \E s \in Spans : EnterSpan(s)
  \/ ExitSpan
  \/ LogInfo("Logging initialized with Pino")
  \/ \E s \in {200, 500} : HttpLogger("GET", "/api/health", s, NoErr)
  \/ OnResFinish

SpecLog == InitLog /\ [][NextLog]_vars

\* the level and the message for every response: any method, path, status
\* code and error
InitLevel ==
  /\ InitProgram({"standalone"})
  /\ span = NoSpan
  /\ sink = <<>>
  /\ pc = 0 /\ sdk = NoSdk /\ exit = Running /\ console = <<>>
  /\ handlers = [sig \in Signals |-> <<>>]
  /\ pending \in { Pair(m, u, s, e) :
                     m \in Methods, u \in Paths, s \in MinStatus..MaxStatus,
                     e \in {NoErr} \cup { Err(t) : t \in ErrorMessages } }

NextLevel == OnResFinish

SpecLevel == InitLevel /\ [][NextLevel]_vars

\* a record written under a span with any trace-flags byte
InitFlags ==
  /\ InitProgram({"standalone"})
  /\ span \in { SpanContext("4bf92f3577b34da6a3ce929d0e0e4736",
                             "00f067aa0ba902b7", f) : f \in 0..MaxFlags }
  /\ sink = <<>>
  /\ pending = NoPending
  /\ pc = 0 /\ sdk = NoSdk /\ exit = Running /\ console = <<>>
  /\ handlers = [sig \in Signals |-> <<>>]

NextFlags == LogInfo("Logging initialized with Pino")

SpecFlags == InitFlags /\ [][NextFlags]_vars

\* ------------------------------------------------------------------------
\* The process: the main script, tracing.js and the signal handlers
\* ------------------------------------------------------------------------
\* the programs whose whole process is followed: server.js and the user
\* service of example 3, which loads tracing.js and has no signal handler
\* of its own
Processes == {"server", "users"}

\* server.js with express loaded ahead of the observability modules
Script_ExpressFirst(a) ==
  IF a = "server"
  THEN << "require express", "require tracing", "require metrics",
          "initTracing", "initMetrics", "console.log", "express()",
          "use parsers", "use middleware", "routes", "listen",
          "signal handlers" >>
  ELSE << "require express", "require tracing", "require metrics",
          "initTracing", "initMetrics", "express()", "use middleware",
          "routes", "listen" >>

\* the statements of the main script, in program order
Script(a) ==
  IF a = "server"
  THEN << "require tracing", "require metrics", "initTracing", "initMetrics",
          "console.log", "require express", "express()", "use parsers",
          "use middleware", "routes", "listen", "signal handlers" >>
  ELSE << "require express", "require tracing", "require metrics",
          "initTracing", "initMetrics", "express()", "use middleware",
          "routes", "listen" >>

\* the statement the script runs next; it runs as one turn of the event
\* loop, after which the process serves requests and signals
NextStmt == IF pc < Len(Script(app)) THEN Script(app)[pc + 1] ELSE "done"

\* the script has run statement st
Ran(st) == \E i \in 1..Len(Script(app)) : i <= pc /\ Script(app)[i] = st

\* statements that change nothing this model follows
PlainStatements ==
  {"require metrics", "require express", "express()", "use parsers", "routes"}

RunStatement ==
  /\ exit = Running
  /\ NextStmt \in PlainStatements
  /\ pc' = pc + 1
  /\ UNCHANGED <<metricsVars, logVars, sdk, handlers, exit, console>>

\* require('./obervability/tracing'): the module body starts the SDK, logs
\* and registers its SIGTERM listener
LoadTracing ==
  /\ exit = Running
  /\ NextStmt = "require tracing"
  /\ pc' = pc + 1
  /\ sdk' = [sdk EXCEPT !.starts = @ + 1]
  /\ console' = Append(console, "Tracing initialized")
  /\ handlers' = [handlers EXCEPT !["SIGTERM"] = Append(@, "tracing")]
  /\ UNCHANGED <<metricsVars, logVars, exit>>

\* what initTracing() returns: the module's one SDK object
TheSdk == [sdk |-> 1]

\* an initTracing that starts the SDK
InitTracing_Starts ==
  /\ exit = Running
  /\ sdk.starts >= 1
  /\ ret' = [op |-> "initTracing", threw |-> FALSE, value |-> TheSdk]
  /\ sdk' = [sdk EXCEPT !.starts = @ + 1]
  /\ pc' = IF NextStmt = "initTracing" THEN pc + 1 ELSE pc
  /\ UNCHANGED <<app, phase, initCalls, holders, instruments, mounted, reqs,
                 created, logVars, handlers, exit, console>>

\* initTracing(): the call in the main script, or any later call
InitTracing ==
  /\ exit = Running
  /\ sdk.starts >= 1
  /\ ret' = [op |-> "initTracing", threw |-> FALSE, value |-> TheSdk]
  /\ sdk' = sdk
  /\ pc' = IF NextStmt = "initTracing" THEN pc + 1 ELSE pc
  /\ UNCHANGED <<app, phase, initCalls, holders, instruments, mounted, reqs,
                 created, logVars, handlers, exit, console>>

\* a statement of the script that is an action of metrics.js or of the app
Stmt(st) ==
  /\ exit = Running
  /\ NextStmt = st
  /\ pc' = pc + 1
  /\ UNCHANGED <<sdk, handlers, exit, console>>

\* console.log('OpenTelemetry initialized successfully')
LogInitialized ==
  /\ exit = Running
  /\ NextStmt = "console.log"
  /\ pc' = pc + 1
  /\ console' = Append(console, "OpenTelemetry initialized successfully")
  /\ UNCHANGED <<metricsVars, logVars, sdk, handlers, exit>>

\* process.on('SIGTERM', ...) and process.on('SIGINT', ...) of server.js
RegisterSignalHandlers ==
  /\ exit = Running
  /\ NextStmt = "signal handlers"
  /\ pc' = pc + 1
  /\ handlers' = [sig \in Signals |-> Append(handlers[sig], "server")]
  /\ UNCHANGED <<metricsVars, logVars, sdk, exit, console>>

\* what a signal listener works on
ProcState(d, c, e) == [sdk |-> d, console |-> c, exit |-> e]

\* a tracing listener that waits for the shutdown before it returns
TracingHandler_Awaited(st) ==
  [st EXCEPT !.sdk.shutdown = "done",
             !.console = Append(@, "Tracing terminated"),
             !.exit = Exited(0)]

\* the SIGTERM listener of tracing.js: sdk.shutdown() is called and its
\* promise is given the callbacks that log and exit
TracingHandler(st) == [st EXCEPT !.sdk.shutdown = "pending"]

\* a server listener that closes the server and leaves the exit to later
ServerHandler_NoExit(sig, st) ==
  [st EXCEPT !.console =
               Append(@, sig \o " signal received: closing HTTP server")]

\* the SIGTERM and SIGINT listeners of server.js: log, process.exit(0)
ServerHandler(sig, st) ==
  [st EXCEPT !.console =
               Append(@, sig \o " signal received: closing HTTP server"),
             !.exit = Exited(0)]

\* process.emit(sig): the listeners run in the order they were registered,
\* until one of them ends the process
RECURSIVE RunHandlers(_, _, _)
RunHandlers(hs, sig, st) ==
  IF hs = <<>> \/ st.exit # Running
  THEN st
  ELSE RunHandlers(Tail(hs), sig,
                   IF Head(hs) = "tracing" THEN TracingHandler(st)
                   ELSE ServerHandler(sig, st))

\* a signal with listeners is delivered once the main script has returned
Signal(sig) ==
  /\ exit = Running
  /\ NextStmt = "done"
  /\ handlers[sig] # <<>>
  /\ LET st == RunHandlers(handlers[sig], sig, ProcState(sdk, console, exit))
     IN /\ sdk' = st.sdk
        /\ console' = st.console
        /\ exit' = st.exit
  /\ UNCHANGED <<metricsVars, logVars, pc, handlers>>

\* a signal nobody listens to ends the process by its default action
SignalDefault(sig) ==
  /\ exit = Running
  /\ handlers[sig] = <<>>
  /\ exit' = KilledBy(sig)
  /\ UNCHANGED <<metricsVars, logVars, pc, sdk, handlers, console>>

\* the promise of sdk.shutdown() settles: then or catch logs, finally exits
ShutdownSettles(ok) ==
  /\ exit = Running
  /\ sdk.shutdown = "pending"
  /\ sdk' = [sdk EXCEPT !.shutdown = IF ok THEN "done" ELSE "failed"]
  /\ console' = Append(console, IF ok THEN "Tracing terminated"
                                ELSE "Error terminating tracing")
  /\ exit' = Exited(0)
  /\ UNCHANGED <<metricsVars, logVars, pc, handlers>>

\* requests are served once the script has returned and until the process
\* ends
Serving == NextStmt = "done" /\ exit = Running

InitProcess == InitWith(Processes)

NextProcess ==
  \/ RunStatement
  \/ LoadTracing
  \/ InitTracing
  \/ /\ Stmt("initMetrics")
     /\ \E cfg \in Configs(app) : \E env \in Envs : InitMetrics(cfg, env)
  \/ LogInitialized
  \/ Stmt("use middleware") /\ UseMiddleware
  \/ Stmt("listen") /\ Listen
  \/ RegisterSignalHandlers
  \/ \E sig \in Signals : Signal(sig)
  \/ \E sig \in Signals : SignalDefault(sig)
  \/ \E ok \in BOOLEAN : ShutdownSettles(ok)
  \/ Serving /\ \E r \in Reqs : \E in \in Inputs(app) : Arrive(r, in)
  \/ Serving /\ \E r \in Reqs : BodyRead(r)
  \/ Serving /\ \E r \in Reqs : TimerFire(r)
  \/ Serving /\ \E r \in Reqs : Finish(r)
  \/ Serving /\ \E r \in Reqs : Abort(r)
  \/ Serving /\ Tick

SpecProcess == InitProcess /\ [][NextProcess]_vars

\* ------------------------------------------------------------------------
\* Properties
\* ------------------------------------------------------------------------
\* the middleware has been invoked on request r
Invoked(r) == reqs[r].mwIn # <<>>

\* the {method, route} partition of a request to a root-mounted middleware
Partition(r) == GaugeKey(reqs[r].method, Url(reqs[r].url.path, ""))

\* requests of partition k that have arrived at the middleware and whose
\* response has not completed
InFlight(k) ==
  { r \in Reqs : Invoked(r) /\ reqs[r].st # "finished" /\ Partition(r) = k }

Completed(k) ==
  { r \in Reqs : Invoked(r) /\ reqs[r].st = "finished" /\ Partition(r) = k }

Ended(r) == reqs[r].st \in {"finished", "aborted"}

\* C2: for every request that passes through the metrics middleware the
\* completion step (gauge decrement, counter add, histogram record) has run
\* exactly once when the response lifecycle has ended, however it ended:
\* normal completion, a handler that errors, or a client abort.
C2_CompletionOnEveryEnding ==
  \A r \in Reqs :
    (Invoked(r) /\ Ended(r)) =>
      /\ Len(reqs[r].decs) = 1
      /\ Len(reqs[r].adds) = 1
      /\ Len(reqs[r].recs) = 1

\* requests whose one counter add (histogram record) went to instrument
\* object k with attribute set key
AddedTo(k, key) ==
  { r \in Reqs : reqs[r].st = "finished" /\ reqs[r].adds = <<Call(k, key)>> }

RecordedTo(k, key) ==
  { r \in Reqs : reqs[r].st = "finished" /\ reqs[r].recs = <<Call(k, key)>> }

C4_DecrementSamePartition ==
  \A r \in Reqs :
    \A i \in 1..Len(reqs[r].decs) :
      /\ reqs[r].incs # <<>>
      /\ reqs[r].decs[i].key = reqs[r].incs[1].key

\* the route label the claim gives the measurements of request r: the
\* matched route pattern when one has been resolved, else the raw path
PatternLabel(r) ==
  IF reqs[r].matched # <<>>
  THEN Url(reqs[r].matched[1], "")
  ELSE RouteLabel(app, reqs[r].url)

\* C5: the route label of every measurement is the matched route pattern
\* when the framework has resolved one and the raw request path only when
\* none has; two requests matching the same pattern share one label value.
C5_RouteLabelIsPattern ==
  /\ \A r \in Reqs :
       \A i \in 1..Len(reqs[r].adds) :
         reqs[r].adds[i].key.route = PatternLabel(r)
  /\ \A r1, r2 \in Reqs :
       ( /\ reqs[r1].adds # <<>>
         /\ reqs[r2].adds # <<>>
         /\ reqs[r1].matched # <<>>
         /\ reqs[r1].matched = reqs[r2].matched )
       => reqs[r1].adds[1].key.route = reqs[r2].adds[1].key.route

\* C6: the metrics middleware never throws: on every invocation, also one
\* whose instrument call fails, no exception leaves it, next() is called,
\* and the process keeps running.
C6_NeverThrows ==
  \A r \in Reqs :
    Invoked(r) =>
      /\ ~reqs[r].threw
      /\ Len(reqs[r].nexts) = 1
      /\ reqs[r].st # "uncaught"

C8_EveryRequestObserved ==
  app = "server" =>
    \A r \in Reqs :
      reqs[r].st = "finished" =>
        /\ Len(reqs[r].incs) = 1
        /\ Len(reqs[r].adds) = 1

\* what getMeter() and getHttpInstruments() return after call k of
\* initMetrics
MeterOf(k) == [meter |-> k]

InstrumentsOf(k) ==
  [httpRequestCounter |-> k, httpRequestDuration |-> k, activeRequests |-> k]

\* the last call was a getter and it threw
GetterThrew(c) == c.op \in {"getMeter", "getHttpInstruments"} /\ c.threw

\* C9: getMeter() and getHttpInstruments() throw 'Metrics not initialized'
\* on every call made before the first initMetrics call and change no
\* state; on every call made after an initMetrics call they do not throw
\* and return the meter, respectively the three instruments, that the most
\* recent initMetrics call created.
C9_GettersGuarded ==
  /\ [](/\ ret.op = "getMeter" =>
             IF initCalls = 0
             THEN ret.threw /\ ret.value = NotInitialized
             ELSE ~ret.threw /\ ret.value = MeterOf(initCalls)
        /\ ret.op = "getHttpInstruments" =>
             IF initCalls = 0
             THEN ret.threw /\ ret.value = NotInitialized
             ELSE ~ret.threw /\ ret.value = InstrumentsOf(initCalls))
  /\ [][(ret' # ret /\ GetterThrew(ret')) =>
          UNCHANGED <<app, phase, initCalls, holders, instruments, mounted,
                      reqs>>]_vars

\* getHttpInstruments() was called after the second initMetrics call and
\* returned that call's instruments
C9_Witness ==
  /\ initCalls = 2
  /\ ret.op = "getHttpInstruments"
  /\ ~ret.threw
  /\ ret.value = InstrumentsOf(2)

\* C10: unset instruments are detected at start-up and never per request:
\* no invocation of the middleware on a request fails because they are
\* unset (each one reaches its gauge increment), also when the middleware
\* came from createHttpMetricsMiddleware() before any initMetrics call.
C10_DetectedAtStartup ==
  \A r \in Reqs :
    Invoked(r) => (reqs[r].incs # <<>> /\ ~reqs[r].threw)

\* every instrument call the middleware made for request r
CallsOf(r) ==
  { reqs[r].incs[i] : i \in 1..Len(reqs[r].incs) } \cup
  { reqs[r].decs[i] : i \in 1..Len(reqs[r].decs) } \cup
  { reqs[r].adds[i] : i \in 1..Len(reqs[r].adds) } \cup
  { reqs[r].recs[i] : i \in 1..Len(reqs[r].recs) }

\* C11: the middleware an initMetrics call returned is bound to that call's
\* instruments: every gauge increment, decrement, counter add and histogram
\* record it makes goes to the instruments returned alongside it, also after
\* a second initMetrics call made while its requests are in flight, and no
\* instrument's active-request value becomes negative (stated for a
\* middleware mounted at the root, where the labels do not move).
C11_BoundToOwnInstruments ==
  (mounted >= 1 /\ MountPath(app) = <<>>) =>
    /\ \A r \in Reqs : \A c \in CallsOf(r) : c.obj = mounted
    /\ \A k \in 1..Len(instruments) :
         \A key \in DOMAIN instruments[k].active :
           instruments[k].active[key] >= 0

\* the objects of one kind that initMetrics calls have constructed so far
MadeOf(kind) == { i \in 1..Len(created) : created[i].kind = kind }

\* C12: initMetrics is not idempotent and has no guard: a second call is
\* not rejected and is not a no-op; it creates a second exporter, a second
\* meter provider and meter and three new instruments, and replaces the
\* process-wide holders, so that getMeter() and getHttpInstruments()
\* afterwards return the second call's objects, which differ from the
\* first call's.
C12_NotIdempotent ==
  /\ [](/\ \A kind \in {"exporter", "meterProvider", "meter", "counter",
                        "histogram", "updown"} :
               Cardinality(MadeOf(kind)) = initCalls
        /\ Len(instruments) = initCalls
        /\ initCalls >= 2 =>
             /\ meterProvider = initCalls /\ meterProvider # 1
             /\ meter = initCalls /\ meter # 1
             /\ httpRequestCounter = initCalls /\ httpRequestCounter # 1
             /\ httpRequestDuration = initCalls /\ httpRequestDuration # 1
             /\ activeRequests = initCalls /\ activeRequests # 1
             /\ ret.op = "getMeter" =>
                  ~ret.threw /\ ret.value = MeterOf(initCalls)
                             /\ ret.value # MeterOf(1)
             /\ ret.op = "getHttpInstruments" =>
                  ~ret.threw /\ ret.value = InstrumentsOf(initCalls)
                             /\ ret.value # InstrumentsOf(1))
  /\ [][(ret' # ret /\ ret'.op = "initMetrics" /\ initCalls >= 1) =>
          /\ ~ret'.threw
          /\ initCalls' = initCalls + 1
          /\ Len(created') > Len(created)
          /\ Len(instruments') = Len(instruments) + 1
          /\ ret'.value.meterProvider # meterProvider
          /\ ret'.value.meter # meter
          /\ ret'.value.httpRequestCounter # httpRequestCounter
          /\ ret'.value.httpRequestDuration # httpRequestDuration
          /\ ret'.value.activeRequests # activeRequests]_vars

\* getMeter() was called after a second initMetrics call and returned the
\* second call's meter
C12_Witness ==
  /\ initCalls = 2
  /\ Cardinality(MadeOf("exporter")) = 2
  /\ ret.op = "getMeter"
  /\ ret.value = MeterOf(2)

\* C13: one call of initMetrics creates, in this order: the metrics
\* exporter bound to the configured port and endpoint (9464 and '/metrics'
\* when not given), the meter provider tagged with serviceName, the counter
\* http_requests_total, the histogram http_request_duration_ms with unit
\* ms, and the up/down counter http_active_requests; the middleware is
\* created only after all three instruments exist.
C13_CreationOrder ==
  [][(ret' # ret /\ ret'.op = "initMetrics") =>
       \E cfg \in Configs(app) : \E env \in Envs :
         LET k == initCalls'
             made == SelectSeq(created', LAMBDA m : m.call = k)
             others == SelectSeq(made, LAMBDA m : m.kind # "meter")
         IN
         /\ created' = created \o made
         /\ [i \in 1..Len(others) |-> others[i].kind] =
              <<"exporter", "meterProvider", "counter", "histogram",
                "updown", "middleware">>
         /\ others[1].port =
              (IF "port" \in DOMAIN cfg THEN cfg.port ELSE 9464)
         /\ others[1].endpoint =
              (IF "endpoint" \in DOMAIN cfg THEN cfg.endpoint ELSE "/metrics")
         /\ others[2].name = ConfigServiceName(cfg, env)
         /\ others[3].name = "http_requests_total"
         /\ others[4].name = "http_request_duration_ms"
         /\ others[4].unit = "ms"
         /\ others[5].name = "http_active_requests"]_vars

\* initMetrics() was called without a config and bound its exporter to the
\* default port and endpoint
C13_Witness ==
  /\ app = "conditional"
  /\ initCalls = 1
  /\ Len(created) = 7
  /\ created[1].kind = "exporter"
  /\ created[1].port = 9464
  /\ created[1].endpoint = "/metrics"
  /\ created[7].kind = "middleware"

\* the summary records of the request logger
HttpEntries == { i \in 1..Len(sink) : sink[i].of # NoPending }

\* C14: for every response status code and every presence or absence of a
\* handler error, the request logger's level is given by the policy applied
\* in the order written: 'warn' when 400 <= status < 500; otherwise 'error'
\* when status >= 500 or an error is present; otherwise 'info'.  The
\* function is total and returns exactly one of these three levels.
C14_LevelPolicy ==
  \A i \in HttpEntries :
    LET s == sink[i].of.statusCode
        e == sink[i].of.err
    IN
    /\ sink[i].level \in {"info", "warn", "error"}
    /\ (s >= 400 /\ s < 500) => sink[i].level = "warn"
    /\ (~(s >= 400 /\ s < 500) /\ (s >= 500 \/ e # NoErr)) =>
         sink[i].level = "error"
    /\ (s < 400 /\ e = NoErr) => sink[i].level = "info"
    /\ sink[i].rec.level = LevelLabel(sink[i].level)

\* a 302 without error was logged at 'info' (and a 500 at 'error' is
\* reached the same way)
C14_Witness ==
  \E i \in HttpEntries :
    /\ sink[i].of.statusCode = 302
    /\ sink[i].of.err = NoErr
    /\ sink[i].level = "info"

\* C15 as stated: whenever the handler threw (an error object is passed to
\* the level selection), the request is logged at level 'error', for every
\* response status code including those in [400,500).
C15_ErrorAlwaysError ==
  \A i \in HttpEntries :
    sink[i].of.err # NoErr => sink[i].level = "error"

\* C15, amended: whenever an error object is passed to the level
\* selection, the request is logged at 'error', except when the status is
\* in [400,500), where it is logged at 'warn'.
C15_ErrorUnlessClientError ==
  \A i \in HttpEntries :
    sink[i].of.err # NoErr =>
      sink[i].level =
        (IF sink[i].of.statusCode \in 400..499 THEN "warn" ELSE "error")

\* a response that ended with an error and status 404 was logged at 'warn'
C15_Witness ==
  \E i \in HttpEntries :
    /\ sink[i].of.err # NoErr
    /\ sink[i].of.statusCode = 404
    /\ sink[i].level = "warn"

\* the three decimal digits of a status code
StatusText(s) ==
  Digits[(s \div 100) + 1] \o Digits[((s \div 10) % 10) + 1]
    \o Digits[(s % 10) + 1]

TraceKeys == {"trace_id", "span_id", "trace_flags"}

C18_SpanReadAtEmission ==
  [][sink' # sink =>
       /\ Len(sink') = Len(sink) + 1
       /\ SubSeq(sink', 1, Len(sink)) = sink
       /\ LET rec == sink'[Len(sink')].rec IN
          IF span = NoSpan
          THEN "trace_id" \notin DOMAIN rec /\ "span_id" \notin DOMAIN rec
          ELSE /\ "trace_id" \in DOMAIN rec /\ "span_id" \in DOMAIN rec
               /\ rec.trace_id = span.traceId
               /\ rec.span_id = span.spanId]_vars

\* two records were written under two different spans
C18_Witness ==
  /\ Len(sink) = 2
  /\ "trace_id" \in DOMAIN sink[1].rec
  /\ "trace_id" \in DOMAIN sink[2].rec
  /\ sink[1].rec.trace_id # sink[2].rec.trace_id

\* two hexadecimal digits of a byte
HexByte(f) == Digits[(f \div 16) + 1] \o Digits[(f % 16) + 1]

\* C19: for every span trace-flags value in 0..255, the trace_flags field
\* of the log record is the hexadecimal encoding of that value left-padded
\* with '0' to a minimum width of 2 characters: 1 gives '01', and a value
\* whose encoding already has 2 characters is emitted unchanged.
C19_TraceFlagsTwoHexDigits ==
  \A i \in 1..Len(sink) :
    (sink[i].at # NoSpan /\ sink[i].at.traceFlags \in 0..255) =>
      sink[i].rec.trace_flags = HexByte(sink[i].at.traceFlags)

\* C20: in the server app both middlewares are registered on every
\* request, so each request that completes writes exactly one
\* request-summary record (method, url, status) to the logging sink.
C20_OneSummaryPerRequest ==
  app = "server" =>
    Cardinality(HttpEntries) =
      Cardinality({ r \in Reqs : reqs[r].st = "finished" })

\* the phases of the server process, in order
PhaseRank ==
  IF exit # Running THEN 5
  ELSE IF phase = "Listening" THEN 4
  ELSE IF initCalls >= 1 THEN 2
  ELSE IF sdk.starts >= 1 THEN 1
  ELSE 0

\* C21: start-up of the server is a forward-only sequence: the tracing SDK
\* is started before metrics are initialized, and both happen before the
\* HTTP framework is loaded, the app object is constructed, any route is
\* registered and the server listens; the process never returns to an
\* earlier phase, and no init step is re-run after Listening is reached.
C21_ForwardOnlyStartup ==
  /\ [](app = "server" =>
          /\ initCalls >= 1 => sdk.starts = 1
          /\ Ran("require express") => (sdk.starts = 1 /\ initCalls = 1)
          /\ Ran("express()") => Ran("require express")
          /\ Ran("routes") => Ran("express()")
          /\ phase = "Listening" => (Ran("routes") /\ mounted = 1))
  /\ [][app = "server" =>
          /\ pc' >= pc
          /\ PhaseRank' >= PhaseRank
          /\ phase = "Listening" =>
               /\ phase' = "Listening"
               /\ initCalls' = initCalls
               /\ sdk'.starts = sdk.starts
               /\ mounted' = mounted
               /\ created' = created]_vars

\* the server has started up and has answered a request
C21_Witness ==
  /\ app = "server"
  /\ NextStmt = "done"
  /\ phase = "Listening"
  /\ \E r \in Reqs : reqs[r].st = "finished"

\* C22: logging is initialized after metrics and before the first route is
\* registered: on every start-up the server passes through a LoggingReady
\* phase between MetricsReady and Listening, so the logger and its trace
\* mixin are available to the first request.
C22_LoggingReadyBeforeRoutes ==
  (app = "server" /\ Ran("routes")) =>
    /\ Ran("require logging")
    /\ sink # <<>>

\* the requests that have arrived and whose response has not completed
Unfinished == { r \in Reqs : reqs[r].st \in {"reading", "waiting", "ended"} }

ShutdownMessages == { sig \o " signal received: closing HTTP server" :
                      sig \in Signals }

ConsoleLines == { console[i] : i \in 1..Len(console) }

Pos(r, ev) ==
  LET is == { i \in 1..Len(reqs[r].events) : reqs[r].events[i] = ev }
  IN IF is = {} THEN 0 ELSE CHOOSE i \in is : \A j \in is : i <= j

Before(r, e1, e2) == Pos(r, e2) # 0 => (Pos(r, e1) # 0 /\ Pos(r, e1) < Pos(r, e2))

\* C27: per request the events are ordered: the gauge increment happens
\* before the route handler runs and before the matching decrement; the
\* counter add and the histogram record happen only after the response has
\* been fully sent, and in the completion step the decrement comes first,
\* then the counter add, then the histogram record.
C27_EventOrder ==
  \A r \in Reqs :
    /\ (Invoked(r) /\ Pos(r, "handler") # 0) =>
         (Pos(r, "inc") # 0 /\ Pos(r, "inc") < Pos(r, "handler"))
    /\ Before(r, "inc", "dec")
    /\ Before(r, "finish", "add")
    /\ Before(r, "finish", "rec")
    /\ Pos(r, "dec") # 0 =>
         /\ Pos(r, "add") = Pos(r, "dec") + 1
         /\ Pos(r, "rec") = Pos(r, "dec") + 2
    /\ Pos(r, "add") # 0 => Pos(r, "dec") # 0

\* a request went through the middleware, its handler and the completion
C27_Witness ==
  \E r \in Reqs :
    reqs[r].events = <<"inc", "next", "handler", "finish", "dec", "add", "rec">>

\* the {method, route, status} label set of a completed request
LabelSet(r) ==
  CountKey(reqs[r].method, RouteLabel(app, reqs[r].url), reqs[r].status)

\* the requests that went through the middleware and completed
Done == { r \in Reqs : Invoked(r) /\ reqs[r].st = "finished" }

\* C28: metric additions commute across requests: for a fixed set of
\* requests (each with its method, route and final status), every
\* interleaving of their arrivals and completions that lets all of them
\* complete ends in the same counter values per {method, route, status},
\* the same number of histogram recordings per label set, and the same
\* (zero) gauge values.
C28_AdditionsCommute ==
  (initCalls = 1 /\ \A r \in Reqs : reqs[r].st \in {"idle", "finished"}) =>
    LET ins == instruments[1] IN
    /\ \A r \in Done : LabelSet(r) \in DOMAIN ins.requests_total
    /\ \A k \in DOMAIN ins.requests_total :
         ins.requests_total[k] = Cardinality({ r \in Done : LabelSet(r) = k })
    /\ DOMAIN ins.duration_ms = DOMAIN ins.requests_total
    /\ \A k \in DOMAIN ins.duration_ms :
         ins.duration_ms[k] = Cardinality({ r \in Done : LabelSet(r) = k })
    /\ \A k \in DOMAIN ins.active : ins.active[k] = 0

\* request r is a GET of the given path that the server has begun to handle
Handled(r, path) ==
  /\ reqs[r].method = "GET"
  /\ reqs[r].url = Url(path, "")
  /\ reqs[r].st \notin {"idle", "reading"}

\* C24: every GET /api/error request, in every server state while
\* listening, is answered with status 500 and a body with error 'Internal
\* Server Error' and message 'Simulated error for testing'; the handler
\* returns this response and does not throw, and the request is recorded in
\* http_requests_total with status 500.
C24_ErrorRouteAnswers500 ==
  app = "server" =>
    \A r \in Reqs :
      Handled(r, <<"api", "error">>) =>
        /\ reqs[r].status = 500
        /\ reqs[r].sent = << [error |-> "Internal Server Error",
                              message |-> "Simulated error for testing"] >>
        /\ ~reqs[r].handlerThrew
        /\ Ended(r) =>
             /\ Len(reqs[r].adds) = 1
             /\ reqs[r].adds[1].key.status = 500
             /\ Val(instruments[1].requests_total, reqs[r].adds[1].key) >= 1

\* the value of the {GET, /api/slow} partition of http_active_requests
SlowGauge ==
  IF initCalls = 0 THEN 0
  ELSE Val(instruments[1].active,
           GaugeKey("GET", Url(<<"api", "slow">>, "")))

\* C25: for any number of concurrent GET /api/slow requests, no response is
\* sent before that request's own fixed 2000 ms delay has elapsed, each
\* request gets exactly one response (status 200) once its delay elapses,
\* and during the whole delay the request counts as active in the
\* {GET, /api/slow} gauge partition, whose value therefore equals the
\* number of pending slow requests.
C25_SlowRequests ==
  /\ [](app = "server" =>
          /\ \A r \in Reqs :
               Handled(r, <<"api", "slow">>) =>
                 /\ reqs[r].sent # <<>> =>
                      (reqs[r].timer = 0 /\ reqs[r].status = 200)
                 /\ reqs[r].st = "waiting" => reqs[r].sent = <<>>
                 /\ reqs[r].timer \in 0..2000
                 /\ Ended(r) => reqs[r].sent # <<>>
          /\ SlowGauge =
               Cardinality({ r \in Reqs : /\ Handled(r, <<"api", "slow">>)
                                          /\ reqs[r].st \in {"waiting", "ended"} }))
  /\ [][app = "server" =>
          \A r \in Reqs :
            /\ (reqs[r].st = "idle" /\ Handled(r, <<"api", "slow">>)') =>
                 (reqs'[r].timer = 2000 /\ reqs'[r].sent = <<>>)
            /\ (Handled(r, <<"api", "slow">>) /\ reqs'[r].sent # reqs[r].sent) =>
                 (reqs[r].sent = <<>> /\ reqs[r].timer = 0)]_vars

\* slow requests waiting for their delay
SlowWaiting == { r \in Reqs : reqs[r].st = "waiting" }

HealthInput == Input("GET", Url(<<"api", "health">>, ""), "none")

\* C26: a pending /api/slow request never blocks other requests: in every
\* state with one or more slow requests waiting for their delay, a GET
\* /api/health request can arrive, be handled and complete with status 200
\* before any of the pending slow requests completes.
C26_SlowDoesNotBlock ==
  /\ [](app = "server" =>
          \A r \in Reqs :
            /\ (SlowWaiting # {} /\ reqs[r].st = "idle"
                /\ (r = 1 \/ reqs[r - 1].st # "idle")) =>
                 ENABLED Arrive(r, HealthInput)
            /\ (SlowWaiting # {} /\ Handled(r, <<"api", "health">>)
                /\ reqs[r].st = "ended") =>
                 ENABLED Finish(r))
  /\ [][app = "server" =>
          \A r \in Reqs :
            /\ (SlowWaiting # {} /\ reqs[r].st = "idle"
                /\ Handled(r, <<"api", "health">>)') =>
                 /\ reqs'[r].st = "ended"
                 /\ reqs'[r].status = 200
                 /\ \A w \in SlowWaiting : reqs'[w] = reqs[w]
            /\ (SlowWaiting # {} /\ Handled(r, <<"api", "health">>)
                /\ reqs[r].st = "ended" /\ reqs'[r].st = "finished") =>
                 /\ reqs'[r].status = 200
                 /\ \A w \in SlowWaiting : reqs'[w] = reqs[w]]_vars

\* a health request arrived after a slow request and completed with 200
\* while the slow request was still waiting for its delay
C26_Witness ==
  /\ app = "server"
  /\ Handled(1, <<"api", "slow">>)
  /\ reqs[1].st = "waiting"
  /\ reqs[1].timer > 0
  /\ Handled(2, <<"api", "health">>)
  /\ reqs[2].st = "finished"
  /\ reqs[2].status = 200
====
